---- MODULE Spec2Model ----
(***************************************************************************)
(* FAE/FeatureAnalysis/CrossValidation.py as a state machine.              *)
(*                                                                         *)
(* CrossValidation.Run (the inner runner) and                              *)
(* CrossValidationOnFeatureNumber.Run (the feature sweep) are sequential   *)
(* Python; each loop iteration is one action.  The classifier, the feature *)
(* selector, the metric estimator, the fold splitters of scikit-learn and  *)
(* the file system are collaborators, modelled by what the runner can see  *)
(* of them: the classifier remembers the data it was last given and the    *)
(* data it was last fit on, a prediction is tagged with the fit that made  *)
(* it, a metric value is any value of MetricValues, and the file system is *)
(* the set of directories and files that exist.                            *)
(*                                                                         *)
(* Sample indices are 0-based, as numpy's are; TLA+ sequences are 1-based. *)
(***************************************************************************)
EXTENDS Integers, Sequences, FiniteSets

\* ------------------------------------------------------------------ bounds

\* Largest dataset (number of samples) given to CrossValidation.Run directly.
MaxSamples == 6

\* Number of samples of the dataset given to a feature sweep.
SweepSamples == 2

\* Most rows a (non-empty) test dataset holds.
MaxTestSamples == 1

\* Largest max_feature_number of a sweep.
MaxFeatureNumber == 2

\* The values a metric takes; only their order is read (by np.argmax).
MetricValues == {0, 1}

\* ------------------------------------------------------- program constants

\* StratifiedKFold(5) and StratifiedKFold(10)
FiveFolds == 5

TenFolds == 10

\* key[4:] strips 'val_' and key[5:] strips 'test_'
ValStrip == 4

TestStrip == 5

\* ------------------------------------------------------------- strings

\* A metric key is sliced by position (key[4:], key[5:]), so keys are
\* sequences of characters.
AUC == <<"a", "u", "c">>

ACCURACY == <<"a", "c", "c", "u", "r", "a", "c", "y">>

TRAIN == <<"t", "r", "a", "i", "n">>

VAL == <<"v", "a", "l">>

TEST == <<"t", "e", "s", "t">>

FEATURE_NUMBER == <<"f", "e", "a", "t", "u", "r", "e", "_", "n", "u", "m", "b", "e", "r">>

\* The metrics the estimator computes (at least 'auc' and 'accuracy').
MetricKeys == {AUC, ACCURACY}

\* metric_name_list: the default ('auc', 'accuracy'), one name, none.
NameLists == {<<AUC, ACCURACY>>, <<ACCURACY>>, <<>>}

\* 'train_' + metric, 'val_' + metric, 'test_' + metric
PrefixedKey(tag, metric) == tag \o <<"_">> \o metric

\* key[n:]
StripPrefix(key, n) == SubSeq(key, n + 1, Len(key))

\* The Python dict {}
EmptyDict == [k \in {} |-> 0]

\* EstimateMetirc(pred, label, tag): a dict of '<tag>_<metric>' -> value.  The
\* estimator is a collaborator: `values` is what it computes from pred and label.
EstimateMetirc(values, tag) ==
    [k \in {PrefixedKey(tag, m) : m \in MetricKeys} |->
        values[StripPrefix(k, Len(tag) + 1)]]

MetricRecords == [MetricKeys -> MetricValues]

\* ------------------------------------------------------------- file system

\* A path: the store folder given by the caller ('' or 'out'), below it the
\* per-feature-count folder 'feature_<n>' (0: none), below it a file ('': none).
Path(base, feature, file) == [base |-> base, feature |-> feature, file |-> file]

NoFolder == Path("", 0, "")

OutFolder == Path("out", 0, "")

\* os.path.join(folder, name)
JoinFile(folder, name) == [folder EXCEPT !.file = name]

\* os.path.join(store_folder, 'feature_' + str(feature_number))
FeatureStoreFolder(store_folder, feature_number) ==
    [store_folder EXCEPT !.feature = feature_number]

\* `if store_folder:`  -- a non-empty path string
IsGiven(folder) == folder.base # "" \/ folder.feature # 0

\* The directory a path lies in; the working directory is NoFolder.
Parent(folder) == IF folder.feature # 0 THEN [folder EXCEPT !.feature = 0] ELSE NoFolder

\* ----------------------------------------------------------- fold splitters

\* The sample indices 0..n-1 that satisfy keep, ascending.
RECURSIVE Ascending(_, _, _)
Ascending(i, n, keep) ==
    IF i >= n THEN <<>>
    ELSE (IF i \in keep THEN <<i>> ELSE <<>>) \o Ascending(i + 1, n, keep)

SetOf(s) == {s[i] : i \in 1..Len(s)}

Fold(n, val) == [train |-> Ascending(0, n, (0..(n - 1)) \ val), val |-> Ascending(0, n, val)]

\* LeaveOneOut().split: ValueError for n_samples <= 1, else fold i holds out sample i.
LeaveOneOutRaises(label) == Len(label) <= 1

LeaveOneOutSplit(label) == [i \in 1..Len(label) |-> Fold(Len(label), {i - 1})]

\* StratifiedKFold(n_splits).split, without shuffling.  Classes are encoded in
\* order of first appearance; y_order is the sorted encoding; fold i is allocated,
\* per class, the members of y_order[i::n_splits]; the members of a class, in
\* index order, fill the folds in fold order.
Encoded(label, i) == IF label[i + 1] = label[1] THEN 0 ELSE 1

ClassMembers(label, k) == {i \in 0..(Len(label) - 1) : Encoded(label, i) = k}

Classes(label) == {Encoded(label, i) : i \in 0..(Len(label) - 1)}

YOrder(label, p) == IF p < Cardinality(ClassMembers(label, 0)) THEN 0 ELSE 1

Allocation(label, n_splits, i, k) ==
    Cardinality({p \in 0..(Len(label) - 1) : p % n_splits = i /\ YOrder(label, p) = k})

RECURSIVE AllocatedBefore(_, _, _, _)
AllocatedBefore(label, n_splits, f, k) ==
    IF f = 0 THEN 0
    ELSE AllocatedBefore(label, n_splits, f - 1, k) + Allocation(label, n_splits, f - 1, k)

\* test_folds[i]
TestFold(label, n_splits, i) ==
    LET k == Encoded(label, i)
        rank == Cardinality({j \in ClassMembers(label, k) : j < i})
    IN  CHOOSE f \in 0..(n_splits - 1) :
            /\ AllocatedBefore(label, n_splits, f, k) <= rank
            /\ rank < AllocatedBefore(label, n_splits, f + 1, k)

\* ValueError: more splits than samples, or more splits than members of every class.
StratifiedKFoldRaises(label, n_splits) ==
    \/ n_splits > Len(label)
    \/ \A k \in Classes(label) : n_splits > Cardinality(ClassMembers(label, k))

StratifiedKFoldSplit(label, n_splits) ==
    [f \in 1..n_splits |->
        Fold(Len(label), {i \in 0..(Len(label) - 1) : TestFold(label, n_splits, i) = f - 1})]

\* CrossValidation.__init__: the splitter of a cv_method; None for any other name.
CvMethods == {"LOO", "10-folder", "5-folder", "other"}

\* self.__cv.split(data, label) raises: None has no split (AttributeError), or
\* the splitter rejects the dataset (ValueError).
SplitRaises(cv_method, label) ==
    CASE cv_method = "LOO" -> LeaveOneOutRaises(label)
      [] cv_method = "10-folder" -> StratifiedKFoldRaises(label, TenFolds)
      [] cv_method = "5-folder" -> StratifiedKFoldRaises(label, FiveFolds)
      [] OTHER -> TRUE

Split(cv_method, label) ==
    CASE cv_method = "LOO" -> LeaveOneOutSplit(label)
      [] cv_method = "10-folder" -> StratifiedKFoldSplit(label, TenFolds)
      [] OTHER -> StratifiedKFoldSplit(label, FiveFolds)

\* -------------------------------------------------------------- classifier

\* Rows of a feature matrix: of the dataset reduced to `selected` features
\* (0: not reduced) or of the test dataset, at the given sample indices.
Rows(selected, src, rows) == [selected |-> selected, src |-> src, rows |-> rows]

NoRows == Rows(0, "none", <<>>)

\* Classifier(): no data, not fit.
NewClassifier == [data |-> NoRows, model |-> NoRows]

\* classifier.SetData(train_data, train_label)
SetData(clf, rows) == [clf EXCEPT !.data = rows]

\* classifier.Fit(): a full retrain on the data last set.
Fit(clf) == [clf EXCEPT !.model = clf.data]

\* classifier.Predict(data): one score per row, made by the current fit.
Predict(clf, rows) ==
    [i \in 1..Len(rows.rows) |-> [model |-> clf.model, src |-> rows.src, row |-> rows.rows[i]]]

\* One entry of the record of classifier calls of the current Run.
Call(op, rows, clf, folder) == [op |-> op, rows |-> rows, model |-> clf.model, folder |-> folder]

\* ------------------------------------------------------------------ state

VARIABLES
    cv_method,            \* CrossValidation.__init__(cv_method)
    label,                \* data_container.GetLabel(): one 0/1 label per sample
    test_rows,            \* number of samples of test_data_container
    store_folder,         \* store_folder of the outermost Run
    metric_name_list,     \* metric_name_list of the sweep
    max_feature_number,   \* self.__max_feature_number
    dirs,                 \* the directories that exist (besides the working directory)
    files,                \* the files written
    summaries,            \* result.csv: folder and the keys of its rows
    curves,               \* the metric-vs-feature-count plots: file and series names
    classifier,           \* self.__classifier
    calls,                \* the classifier calls of the current CrossValidation.Run
    estimated,            \* the tags EstimateMetirc was called with in that Run
    cpc,                  \* position in CrossValidation.Run
    cv_data,              \* its data_container
    cv_store,             \* its store_folder
    folds,                \* what self.__cv.split yields
    fold_no,              \* folds completed
    val_index_store,
    train_pred_list,
    train_label_list,
    val_pred_list,
    val_label_list,
    cv_return,            \* (train_metric, val_metric, test_metric)
    spc,                  \* position in CrossValidationOnFeatureNumber.Run
    feature_number,       \* its loop variable
    selector_calls,       \* SetSelectedFeatureNumber(n); Run(data_container, folder)
    train_metric_list,
    val_metric_list,
    test_metric_list,
    sweep_return          \* (val_return_list, test_return_max_val_list, test_return_max_test_list)

inputs == <<cv_method, label, test_rows, store_folder, metric_name_list, max_feature_number>>

disk == <<dirs, files, summaries, curves>>

pooled == <<val_index_store, train_pred_list, train_label_list, val_pred_list, val_label_list>>

cvframe == <<cpc, cv_data, cv_store, folds, fold_no, cv_return>>

sweepframe == <<spc, feature_number, selector_calls, train_metric_list, val_metric_list,
                test_metric_list, sweep_return>>

trace == <<calls, estimated>>

vars == <<inputs, disk, classifier, trace, pooled, cvframe, sweepframe>>

\* A dataset: its labels, and the number of features it was reduced to.
DataContainer(selected, lab) == [selected |-> selected, label |-> lab]

\* All label vectors of n samples, and of at most n samples.
LabelVectors(n) == [1..n -> {0, 1}]

Datasets(n) == UNION {LabelVectors(k) : k \in 0..n}

\* Two datasets large enough for StratifiedKFold(10): ten samples of one class,
\* and eleven samples of which one is of the other class.
LargeDatasets ==
    {[i \in 1..TenFolds |-> 0], [i \in 1..(TenFolds + 1) |-> IF i = 3 THEN 1 ELSE 0]}

NoReturn == [train |-> EmptyDict, val |-> EmptyDict, test |-> EmptyDict]

NoSweepReturn == [val |-> <<>>, test_max_val |-> <<>>, test_max_test |-> <<>>]

\* ------------------------------------------------------- CrossValidation.Run

\* label[index]
Take(lab, index) == [i \in 1..Len(index) |-> lab[index[i] + 1]]

\* Mutant of FoldTrainData: the fold is fit on every sample.
FoldTrainDataAll(dc, fold) ==
    Rows(dc.selected, "data", Ascending(0, Len(dc.label), 0..(Len(dc.label) - 1)))

\* data[train_index, :], the rows SetData and the first Predict are given
FoldTrainData(dc, fold) == Rows(dc.selected, "data", fold.train)

\* data[val_index, :]
FoldValData(dc, fold) == Rows(dc.selected, "data", fold.val)

\* Mutant of ExtendIndexStore: val_index_store = val_index
ExtendIndexStoreOverwrite(store, val_index) == val_index

\* val_index_store.extend(val_index)
ExtendIndexStore(store, val_index) == store \o val_index

\* Mutant of ExtendPooled: the list is replaced by the fold's values.
ExtendPooledOverwrite(list, prob) == prob

\* val_pred_list.extend(val_prob)
ExtendPooled(list, prob) == list \o prob

\* Mutant of FitOnAll: the classifier is left as the last fold fit it.
FitOnAllSkipped(clf, dc) == clf

\* classifier.SetDataContainer(data_container); classifier.Fit()
FitOnAll(clf, dc) ==
    Fit(SetData(clf, Rows(dc.selected, "data", Ascending(0, Len(dc.label), 0..(Len(dc.label) - 1)))))

\* Mutant of HasTestData: size >= 0
HasTestDataAlways(rows) == rows >= 0

\* test_data_container.GetArray().size > 0: a dataset with samples has columns
HasTestData(rows) == rows > 0

\* test_data_container.GetArray()
TestData(rows) == Rows(0, "test", Ascending(0, rows, 0..(rows - 1)))

\* Lines 78-84, the splitter raising: AttributeError for no splitter, ValueError
\* for a dataset the splitter rejects.  The exception leaves every Run.
CVSplitRaises ==
    /\ cpc = "called"
    /\ SplitRaises(cv_method, cv_data.label)
    /\ cpc' = "raised"
    /\ val_index_store' = <<>>
    /\ train_pred_list' = <<>>
    /\ train_label_list' = <<>>
    /\ val_pred_list' = <<>>
    /\ val_label_list' = <<>>
    /\ calls' = <<>>
    /\ estimated' = <<>>
    /\ UNCHANGED <<inputs, disk, classifier, cv_data, cv_store, folds, fold_no, cv_return,
                   sweepframe>>

\* Lines 78-84: the lists start empty and the splitter yields the folds.
CVEnter ==
    /\ cpc = "called"
    /\ ~SplitRaises(cv_method, cv_data.label)
    /\ cpc' = "fold"
    /\ folds' = Split(cv_method, cv_data.label)
    /\ fold_no' = 0
    /\ val_index_store' = <<>>
    /\ train_pred_list' = <<>>
    /\ train_label_list' = <<>>
    /\ val_pred_list' = <<>>
    /\ val_label_list' = <<>>
    /\ calls' = <<>>
    /\ estimated' = <<>>
    /\ UNCHANGED <<inputs, disk, classifier, cv_data, cv_store, cv_return, sweepframe>>

\* Lines 85-101: one pass of the fold loop.
CVFold ==
    /\ cpc = "fold"
    /\ fold_no < Len(folds)
    /\ LET fold == folds[fold_no + 1]
           train_data == FoldTrainData(cv_data, fold)
           val_data == FoldValData(cv_data, fold)
           given == SetData(classifier, train_data)
           fitted == Fit(given)
           train_prob == Predict(fitted, train_data)
           val_prob == Predict(fitted, val_data)
       IN  /\ val_index_store' = ExtendIndexStore(val_index_store, fold.val)
           /\ classifier' = fitted
           /\ calls' = calls \o << Call("SetData", train_data, given, NoFolder),
                                   Call("Fit", train_data, fitted, NoFolder),
                                   Call("Predict", train_data, fitted, NoFolder),
                                   Call("Predict", val_data, fitted, NoFolder) >>
           /\ train_pred_list' = ExtendPooled(train_pred_list, train_prob)
           /\ train_label_list' = ExtendPooled(train_label_list, Take(cv_data.label, fold.train))
           /\ val_pred_list' = ExtendPooled(val_pred_list, val_prob)
           /\ val_label_list' = ExtendPooled(val_label_list, Take(cv_data.label, fold.val))
    /\ fold_no' = fold_no + 1
    /\ UNCHANGED <<inputs, disk, estimated, cpc, cv_data, cv_store, folds, cv_return, sweepframe>>

\* The files of lines 130-150, the test files only with test data.
StoredFiles(folder, with_test) ==
    {JoinFile(folder, n) : n \in {"train_predict.npy", "val_predict.npy", "train_label.npy",
                                  "val_label.npy", "cv_info.csv", "train_ROC.jpg",
                                  "val_ROC.jpg", "classifier", "result.csv"}}
    \cup (IF with_test
          THEN {JoinFile(folder, n) : n \in {"test_predict.npy", "test_label.npy", "test_ROC.jpg"}}
          ELSE {})

\* Lines 103-152: the pooled metrics, the fit on the whole dataset, the test
\* metrics, the files, the return.
CVFinish(train_values) ==
    /\ cpc = "fold"
    /\ fold_no = Len(folds)
    /\ \E val_values \in MetricRecords :
       \E test_values \in IF HasTestData(test_rows) THEN MetricRecords ELSE {EmptyDict} :
        LET train_metric == EstimateMetirc(train_values, TRAIN)
            val_metric == EstimateMetirc(val_values, VAL)
            fitted == FitOnAll(classifier, cv_data)
            test_data == TestData(test_rows)
            test_metric == IF HasTestData(test_rows)
                           THEN EstimateMetirc(test_values, TEST) ELSE EmptyDict
            info == DOMAIN train_metric \cup DOMAIN val_metric
                    \cup (IF HasTestData(test_rows) THEN DOMAIN test_metric ELSE {})
        IN  /\ classifier' = fitted
            /\ calls' = calls
                 \o << Call("SetData", fitted.data, fitted, NoFolder),
                       Call("Fit", fitted.data, fitted, NoFolder) >>
                 \o (IF HasTestData(test_rows)
                     THEN << Call("Predict", test_data, fitted, NoFolder) >> ELSE <<>>)
                 \o (IF IsGiven(cv_store)
                     THEN << Call("Save", NoRows, fitted, cv_store) >> ELSE <<>>)
            /\ estimated' = <<TRAIN, VAL>> \o (IF HasTestData(test_rows) THEN <<TEST>> ELSE <<>>)
            /\ IF IsGiven(cv_store)
               THEN /\ dirs' = dirs \cup {cv_store}
                    /\ files' = files \cup StoredFiles(cv_store, HasTestData(test_rows))
                    /\ summaries' = summaries \cup {[folder |-> cv_store, keys |-> info]}
               ELSE UNCHANGED <<dirs, files, summaries>>
            /\ cv_return' = [train |-> train_metric, val |-> val_metric, test |-> test_metric]
    /\ cpc' = "returned"
    /\ UNCHANGED <<inputs, curves, pooled, cv_data, cv_store, folds, fold_no, sweepframe>>

\* CrossValidation.Run called on its own.
InitCV ==
    /\ cv_method \in CvMethods
    /\ label \in Datasets(MaxSamples) \cup LargeDatasets
    /\ test_rows \in 0..MaxTestSamples
    /\ store_folder \in {NoFolder, OutFolder}
    /\ metric_name_list = <<>>
    /\ max_feature_number = 0
    /\ dirs \in {{}, {OutFolder}}
    /\ files = {}
    /\ summaries = {}
    /\ curves = {}
    /\ classifier = NewClassifier
    /\ calls = <<>>
    /\ estimated = <<>>
    /\ cpc = "called"
    /\ cv_data = DataContainer(0, label)
    /\ cv_store = store_folder
    /\ folds = <<>>
    /\ fold_no = 0
    /\ val_index_store = <<>>
    /\ train_pred_list = <<>>
    /\ train_label_list = <<>>
    /\ val_pred_list = <<>>
    /\ val_label_list = <<>>
    /\ cv_return = NoReturn
    /\ spc = "none"
    /\ feature_number = 0
    /\ selector_calls = <<>>
    /\ train_metric_list = <<>>
    /\ val_metric_list = <<>>
    /\ test_metric_list = <<>>
    /\ sweep_return = NoSweepReturn

CVFinishAny == \E train_values \in MetricRecords : CVFinish(train_values)

NextCV ==
    \/ CVSplitRaises
    \/ CVEnter
    \/ CVFold
    \/ CVFinishAny

SpecCV == InitCV /\ [][NextCV]_vars

\* ---------------------------------------- CrossValidationOnFeatureNumber.Run

\* Mutant of NpArgmax: the last maximum.
NpArgmaxLast(values) ==
    (CHOOSE i \in 1..Len(values) :
        /\ \A j \in 1..Len(values) : values[j] <= values[i]
        /\ \A j \in (i + 1)..Len(values) : values[j] < values[i]) - 1

\* np.argmax(values): the 0-based index of the first maximum.
NpArgmax(values) ==
    (CHOOSE i \in 1..Len(values) :
        /\ \A j \in 1..Len(values) : values[j] <= values[i]
        /\ \A j \in 1..(i - 1) : values[j] < values[i]) - 1

\* np.argmax(metric_dict['val'])
ValOptimum(metric_dict) == NpArgmax(metric_dict.val)

\* Mutant of TestOptimum: the validation values are read.
TestOptimumByVal(metric_dict) == NpArgmax(metric_dict.val)

\* np.argmax(metric_dict['test'])
TestOptimum(metric_dict) == NpArgmax(metric_dict.test)

\* Mutant of SelectorArgument: the 0-based loop index.
SelectorArgumentZeroBased(n) == n - 1

\* The argument of SetSelectedFeatureNumber
SelectorArgument(n) == n

\* feature_selector.Run(data_container, folder): the dataset reduced to the
\* number of features last set; the samples and their labels are kept.
SelectorRun(number, dc) == DataContainer(number, dc.label)

\* test_metric_list[0] != {}
SweepHasTest(metric_list) == DOMAIN metric_list[1] # {}

\* metric_ditc of one metric: the train, val and test values per feature count.
MetricDict(name, trains, vals, tests, number) ==
    [name  |-> name,
     train |-> [n \in 1..number |-> trains[n][PrefixedKey(TRAIN, name)]],
     val   |-> [n \in 1..number |-> vals[n][PrefixedKey(VAL, name)]],
     test  |-> IF number >= 1 /\ SweepHasTest(tests)
               THEN [n \in 1..number |-> tests[n][PrefixedKey(TEST, name)]]
               ELSE <<>>]

\* metric_info: 'feature_number', then every key of new_info with its first
\* `strip` characters cut (a later key overwrites an earlier equal one).
MetricInfo(new_info, number, strip) ==
    [k \in {FEATURE_NUMBER} \cup {StripPrefix(key, strip) : key \in DOMAIN new_info} |->
        IF \E key \in DOMAIN new_info : StripPrefix(key, strip) = k
        THEN new_info[CHOOSE key \in DOMAIN new_info : StripPrefix(key, strip) = k]
        ELSE number]

\* val_return_list: per requested metric, the validation record at its optimum.
ValReturnList(metric_list, vals) ==
    [m \in 1..Len(metric_list) |->
        MetricInfo(vals[ValOptimum(metric_list[m]) + 1], ValOptimum(metric_list[m]) + 1, ValStrip)]

\* test_return_max_val_list: the test record at the validation optimum.
TestReturnMaxValList(metric_list, tests) ==
    [m \in 1..Len(metric_list) |->
        MetricInfo(tests[ValOptimum(metric_list[m]) + 1], ValOptimum(metric_list[m]) + 1, TestStrip)]

\* Mutant of BestTestAtValOptimum: the guard `if test_metric_list[0] != {}` is missing.
BestTestAtValOptimumUnguarded(has_test, metric_list, tests) ==
    TestReturnMaxValList(metric_list, tests)

\* Lines 233-240: test_return_max_val_list stays empty without test metrics.
BestTestAtValOptimum(has_test, metric_list, tests) ==
    IF has_test THEN TestReturnMaxValList(metric_list, tests) ELSE <<>>

\* test_return_max_test_list: the test record at the test optimum.
TestReturnMaxTestList(metric_list, tests) ==
    [m \in 1..Len(metric_list) |->
        MetricInfo(tests[TestOptimum(metric_list[m]) + 1], TestOptimum(metric_list[m]) + 1, TestStrip)]

\* metric_dict['name'] + '_FeatureNum.jpg'
CurveFile(name) == IF name = AUC THEN "auc_FeatureNum.jpg" ELSE "accuracy_FeatureNum.jpg"

\* os.path.exists / os.path.isdir; the working directory always exists.
Exists(folder) == folder = NoFolder \/ folder \in dirs

\* Lines 182-184, os.mkdir raising FileNotFoundError: the store folder the
\* feature folder is to be made in does not exist.
SweepMkdirRaises ==
    /\ spc = "loop"
    /\ feature_number <= max_feature_number
    /\ ~Exists(FeatureStoreFolder(store_folder, feature_number))
    /\ ~Exists(Parent(FeatureStoreFolder(store_folder, feature_number)))
    /\ spc' = "raised"
    /\ UNCHANGED <<inputs, disk, classifier, trace, pooled, cvframe, feature_number,
                   selector_calls, train_metric_list, val_metric_list, test_metric_list,
                   sweep_return>>

\* Lines 179-191: one pass of the feature-count loop, up to the call of
\* CrossValidation.Run.
SweepIterate ==
    /\ spc = "loop"
    /\ feature_number <= max_feature_number
    /\ LET feature_store_folder == FeatureStoreFolder(store_folder, feature_number)
           number == SelectorArgument(feature_number)
       IN  /\ Exists(feature_store_folder) \/ Exists(Parent(feature_store_folder))
           /\ dirs' = dirs \cup {feature_store_folder}
           /\ selector_calls' = Append(selector_calls,
                                       [number |-> number, folder |-> feature_store_folder])
           /\ cv_data' = SelectorRun(number, DataContainer(0, label))
           /\ cv_store' = feature_store_folder
    /\ cpc' = "called"
    /\ spc' = "running"
    /\ UNCHANGED <<inputs, files, summaries, curves, classifier, trace, pooled, folds, fold_no,
                   cv_return, feature_number, train_metric_list, val_metric_list,
                   test_metric_list, sweep_return>>

\* Lines 190-195: CrossValidation.Run has returned; its records are appended.
SweepCollect ==
    /\ spc = "running"
    /\ cpc = "returned"
    /\ train_metric_list' = Append(train_metric_list, cv_return.train)
    /\ val_metric_list' = Append(val_metric_list, cv_return.val)
    /\ test_metric_list' = Append(test_metric_list, cv_return.test)
    /\ feature_number' = feature_number + 1
    /\ spc' = "loop"
    /\ cpc' = "idle"
    /\ UNCHANGED <<inputs, disk, classifier, trace, pooled, cv_data, cv_store, folds, fold_no,
                   cv_return, selector_calls, sweep_return>>

\* Lines 197-250 with no feature count swept and a metric requested:
\* test_metric_list[0] raises IndexError (line 210) or np.argmax of an empty
\* sequence raises ValueError (line 227).
SweepAggregateRaises ==
    /\ spc = "loop"
    /\ feature_number > max_feature_number
    /\ Len(metric_name_list) > 0
    /\ max_feature_number = 0
    /\ spc' = "raised"
    /\ UNCHANGED <<inputs, disk, classifier, trace, pooled, cvframe, feature_number,
                   selector_calls, train_metric_list, val_metric_list, test_metric_list,
                   sweep_return>>

\* Lines 197-250: the per-metric sequences, the plots, the three lists, the return.
SweepReturn ==
    /\ spc = "loop"
    /\ feature_number > max_feature_number
    /\ ~(Len(metric_name_list) > 0 /\ max_feature_number = 0)
    /\ LET metric_list == [m \in 1..Len(metric_name_list) |->
                              MetricDict(metric_name_list[m], train_metric_list,
                                         val_metric_list, test_metric_list, max_feature_number)]
           has_test == Len(metric_list) > 0 /\ SweepHasTest(test_metric_list)
           plots == {[file |-> JoinFile(store_folder, CurveFile(metric_list[m].name)),
                      names |-> IF has_test THEN <<"train", "validation", "test">>
                                ELSE <<"train", "validation">>] : m \in 1..Len(metric_list)}
       IN  /\ IF IsGiven(store_folder) /\ Exists(store_folder)
              THEN /\ curves' = curves \cup plots
                   /\ files' = files \cup {p.file : p \in plots}
              ELSE UNCHANGED <<curves, files>>
           /\ sweep_return' =
                [val |-> ValReturnList(metric_list, val_metric_list),
                 test_max_val |-> BestTestAtValOptimum(has_test, metric_list, test_metric_list),
                 test_max_test |-> IF has_test
                                   THEN TestReturnMaxTestList(metric_list, test_metric_list)
                                   ELSE <<>>]
    /\ spc' = "done"
    /\ UNCHANGED <<inputs, dirs, summaries, classifier, trace, pooled, cvframe, feature_number,
                   selector_calls, train_metric_list, val_metric_list, test_metric_list>>

\* The labels of the dataset a sweep is explored on.
SweepLabels == [i \in 1..SweepSamples |-> (i - 1) % 2]

\* The train values a sweep is explored with: they are plotted and written, and
\* no branch reads them.
SweepTrainValues == [m \in MetricKeys |-> 1]

\* CrossValidationOnFeatureNumber.Run called.
Init ==
    /\ cv_method \in CvMethods
    /\ label = SweepLabels
    /\ test_rows \in 0..MaxTestSamples
    /\ store_folder \in {NoFolder, OutFolder}
    /\ metric_name_list \in NameLists
    /\ max_feature_number \in 0..MaxFeatureNumber
    /\ dirs \in {{}, {OutFolder}}
    /\ files = {}
    /\ summaries = {}
    /\ curves = {}
    /\ classifier = NewClassifier
    /\ calls = <<>>
    /\ estimated = <<>>
    /\ cpc = "idle"
    /\ cv_data = DataContainer(0, label)
    /\ cv_store = NoFolder
    /\ folds = <<>>
    /\ fold_no = 0
    /\ val_index_store = <<>>
    /\ train_pred_list = <<>>
    /\ train_label_list = <<>>
    /\ val_pred_list = <<>>
    /\ val_label_list = <<>>
    /\ cv_return = NoReturn
    /\ spc = "loop"
    /\ feature_number = 1
    /\ selector_calls = <<>>
    /\ train_metric_list = <<>>
    /\ val_metric_list = <<>>
    /\ test_metric_list = <<>>
    /\ sweep_return = NoSweepReturn

CVFinishSweep == CVFinish(SweepTrainValues)

Next ==
    \/ SweepMkdirRaises
    \/ SweepIterate
    \/ CVSplitRaises
    \/ CVEnter
    \/ CVFold
    \/ CVFinishSweep
    \/ SweepCollect
    \/ SweepAggregateRaises
    \/ SweepReturn

Spec == Init /\ [][Next]_vars

\* ------------------------------------------------------------------ claims

\* n is the 1-based position of the maximum of values, the smallest on a tie.
IsFirstMaximum(values, n) ==
    /\ n \in 1..Len(values)
    /\ \A j \in 1..Len(values) : values[j] <= values[n]
    /\ \A j \in 1..(n - 1) : values[j] < values[n]

\* The values of one metric over the feature counts, read from the records.
ValValues(name) == [n \in 1..Len(val_metric_list) |-> val_metric_list[n][PrefixedKey(VAL, name)]]

TestValues(name) == [n \in 1..Len(test_metric_list) |-> test_metric_list[n][PrefixedKey(TEST, name)]]

\* record is list[n] with its phase tag stripped and the feature count n added.
IsRecordOf(record, list, tag, n) ==
    /\ DOMAIN record = {FEATURE_NUMBER} \cup MetricKeys
    /\ record[FEATURE_NUMBER] = n
    /\ \A k \in MetricKeys : record[k] = list[n][PrefixedKey(tag, k)]

SweepDone == spc = "done"

\* C1: when a sweep with max_feature_number >= 1 returns, for every requested
\* metric the record of the first returned list names the feature count at which
\* that metric's validation values are largest, the smallest such count on a tie,
\* and its other entries are the validation record of that feature count.
C1_BestByValidation ==
    (SweepDone /\ max_feature_number >= 1) =>
        /\ Len(sweep_return.val) = Len(metric_name_list)
        /\ \A m \in 1..Len(metric_name_list) :
            LET record == sweep_return.val[m]
            IN  /\ FEATURE_NUMBER \in DOMAIN record
                /\ IsFirstMaximum(ValValues(metric_name_list[m]), record[FEATURE_NUMBER])
                /\ IsRecordOf(record, val_metric_list, VAL, record[FEATURE_NUMBER])

\* A sweep over two feature counts has returned; 'auc' is tied (count 1 is
\* taken) and 'accuracy' is largest at count 2.
C1_Witness ==
    /\ SweepDone
    /\ metric_name_list = <<AUC, ACCURACY>>
    /\ max_feature_number = 2
    /\ ValValues(AUC) = <<1, 1>>
    /\ ValValues(ACCURACY) = <<0, 1>>
    /\ sweep_return.val[1][FEATURE_NUMBER] = 1
    /\ sweep_return.val[2][FEATURE_NUMBER] = 2

\* A CrossValidation.Run is in progress (or has raised, or has returned and is
\* not yet collected).
RunActive == cpc \in {"called", "fold", "returned", "raised"}

\* C2: the selector is called with 1, 2, ... in that order, at most
\* max_feature_number times and exactly that often when the sweep returns; the
\* run for feature count n works on the dataset the selector returned for n, and
\* the selector is called for n + 1 only when the run for n has been collected.
C2_SelectorOrder ==
    /\ \A i \in 1..Len(selector_calls) : selector_calls[i].number = i
    /\ Len(selector_calls) <= max_feature_number
    /\ SweepDone => Len(selector_calls) = max_feature_number
    /\ Len(train_metric_list) = Len(val_metric_list)
    /\ Len(test_metric_list) = Len(val_metric_list)
    /\ spc = "running" =>
        /\ RunActive
        /\ Len(selector_calls) = Len(val_metric_list) + 1
        /\ cv_data = DataContainer(Len(selector_calls), label)
        /\ cpc \in {"fold", "returned"} =>
            \A i \in 1..Len(calls) :
                calls[i].rows.src = "data" => calls[i].rows.selected = Len(selector_calls)
    /\ spc # "running" =>
        /\ ~RunActive
        /\ Len(selector_calls) = Len(val_metric_list)

\* The sweep over two feature counts has returned after two selector calls.
C2_Witness ==
    /\ SweepDone
    /\ max_feature_number = 2
    /\ Len(selector_calls) = 2
    /\ selector_calls[2].number = 2

TestFiles == {"test_predict.npy", "test_label.npy", "test_ROC.jpg"}

\* C3: CrossValidation.Run with an empty test dataset returns {} as test
\* metrics, predicts no test data, estimates no test metric, writes no test file
\* and no test row of the summary table, and returns train and validation metrics.
C3_EmptyTestSkipped ==
    (cpc = "returned" /\ test_rows = 0) =>
        /\ DOMAIN cv_return.test = {}
        /\ \A i \in 1..Len(calls) : ~(calls[i].op = "Predict" /\ calls[i].rows.src = "test")
        /\ estimated = <<TRAIN, VAL>>
        /\ \A f \in files : f.file \notin TestFiles
        /\ \A t \in summaries : \A m \in MetricKeys : PrefixedKey(TEST, m) \notin t.keys
        /\ DOMAIN cv_return.train = {PrefixedKey(TRAIN, m) : m \in MetricKeys}
        /\ DOMAIN cv_return.val = {PrefixedKey(VAL, m) : m \in MetricKeys}

\* A run with an empty test dataset and an output folder has returned and has
\* written its files.
C3_Witness ==
    /\ cpc = "returned"
    /\ test_rows = 0
    /\ cv_store = OutFolder
    /\ JoinFile(OutFolder, "result.csv") \in files
    /\ Len(calls) > 0

SweepHasTestRecords == max_feature_number >= 1 /\ DOMAIN test_metric_list[1] # {}

\* C4: when test metrics exist and the sweep returns, for every requested metric
\* the second list holds the test record of the feature count that is best by
\* validation (the count the first list names) and the third list holds the test
\* record of the feature count at which the metric's test values are largest.
C4_TestSelections ==
    (SweepDone /\ SweepHasTestRecords) =>
        /\ Len(sweep_return.test_max_val) = Len(metric_name_list)
        /\ Len(sweep_return.test_max_test) = Len(metric_name_list)
        /\ \A m \in 1..Len(metric_name_list) :
            LET at_val == sweep_return.test_max_val[m]
                at_test == sweep_return.test_max_test[m]
            IN  /\ FEATURE_NUMBER \in DOMAIN at_val
                /\ FEATURE_NUMBER \in DOMAIN at_test
                /\ IsFirstMaximum(ValValues(metric_name_list[m]), at_val[FEATURE_NUMBER])
                /\ at_val[FEATURE_NUMBER] = sweep_return.val[m][FEATURE_NUMBER]
                /\ IsRecordOf(at_val, test_metric_list, TEST, at_val[FEATURE_NUMBER])
                /\ IsFirstMaximum(TestValues(metric_name_list[m]), at_test[FEATURE_NUMBER])
                /\ IsRecordOf(at_test, test_metric_list, TEST, at_test[FEATURE_NUMBER])

\* A sweep with test data has returned; for 'accuracy' validation is best at
\* feature count 2 and test is best at feature count 1.
C4_Witness ==
    /\ SweepDone
    /\ SweepHasTestRecords
    /\ metric_name_list = <<ACCURACY>>
    /\ sweep_return.test_max_val[1][FEATURE_NUMBER] = 2
    /\ sweep_return.test_max_test[1][FEATURE_NUMBER] = 1

\* The largest of the values.
Largest(values) == CHOOSE v \in SetOf(values) : \A w \in SetOf(values) : w <= v

\* C5: when no run of a returned sweep produced a test record, both test lists
\* are empty and the first list holds one record per requested metric, in the
\* order requested: the m-th record carries the largest validation value of the
\* m-th requested metric.
C5_NoTestRecords ==
    (SweepDone /\ \A n \in 1..Len(test_metric_list) : DOMAIN test_metric_list[n] = {}) =>
        /\ sweep_return.test_max_val = <<>>
        /\ sweep_return.test_max_test = <<>>
        /\ Len(sweep_return.val) = Len(metric_name_list)
        /\ \A m \in 1..Len(metric_name_list) :
            /\ metric_name_list[m] \in DOMAIN sweep_return.val[m]
            /\ sweep_return.val[m][metric_name_list[m]] = Largest(ValValues(metric_name_list[m]))

\* A sweep without test data has returned two records whose order matters: the
\* record for 'auc' is not the one for 'accuracy'.
C5_Witness ==
    /\ SweepDone
    /\ test_rows = 0
    /\ max_feature_number = 2
    /\ Len(test_metric_list) = 2
    /\ metric_name_list = <<AUC, ACCURACY>>
    /\ Len(sweep_return.val) = 2
    /\ sweep_return.val[1] # sweep_return.val[2]

FoldLoopEnded == (cpc = "fold" /\ fold_no = Len(folds)) \/ cpc = "returned"

\* C6: at the end of the fold loop the validation-index store holds each sample
\* index 0..N-1 exactly once; with leave-one-out, N folds were iterated and
\* each held out one sample.
C6_ValidationPartition ==
    FoldLoopEnded =>
        /\ Len(val_index_store) = Len(cv_data.label)
        /\ SetOf(val_index_store) = 0..(Len(cv_data.label) - 1)
        /\ cv_method = "LOO" =>
            /\ fold_no = Len(cv_data.label)
            /\ \A f \in 1..Len(folds) : Len(folds[f].val) = 1

\* A stratified 5-fold run over six samples of two classes has ended its loop,
\* one fold holding out two samples.
C6_Witness ==
    /\ FoldLoopEnded
    /\ cv_method = "5-folder"
    /\ Len(cv_data.label) = 6
    /\ \E i, j \in 1..6 : cv_data.label[i] # cv_data.label[j]
    /\ \E f \in 1..Len(folds) : Len(folds[f].val) = 2

RECURSIVE TrainSizes(_)
TrainSizes(f) == IF f = 0 THEN 0 ELSE TrainSizes(f - 1) + Len(folds[f].train)

RECURSIVE ValSizes(_)
ValSizes(f) == IF f = 0 THEN 0 ELSE ValSizes(f - 1) + Len(folds[f].val)

\* C7: after every fold the pooled train predictions and labels are as many as
\* the training samples of the folds so far, the pooled validation predictions
\* and labels as many as the validation samples so far; after the last fold
\* there are N validation predictions and the i-th is of the sample the
\* validation-index store names at i.
C7_PooledLengths ==
    cpc \in {"fold", "returned"} =>
        /\ Len(train_pred_list) = TrainSizes(fold_no)
        /\ Len(train_label_list) = TrainSizes(fold_no)
        /\ Len(val_pred_list) = ValSizes(fold_no)
        /\ Len(val_label_list) = ValSizes(fold_no)
        /\ FoldLoopEnded =>
            /\ Len(val_pred_list) = Len(cv_data.label)
            /\ \A i \in 1..Len(val_pred_list) :
                /\ val_pred_list[i].src = "data"
                /\ val_pred_list[i].row = val_index_store[i]
                /\ val_label_list[i] = cv_data.label[val_index_store[i] + 1]

\* Two of several folds are done: the pooled lists hold two folds' worth.
C7_Witness ==
    /\ cpc = "fold"
    /\ fold_no = 2
    /\ Len(folds) > 2
    /\ Len(train_pred_list) > Len(folds[2].train)
    /\ Len(val_pred_list) = 2

\* The whole dataset of the run, as the classifier is given it.
FullData == Rows(cv_data.selected, "data",
                 Ascending(0, Len(cv_data.label), 0..(Len(cv_data.label) - 1)))

\* The classifier calls a fold makes: SetData, Fit, Predict, Predict.
FoldCalls == <<"SetData", "Fit", "Predict", "Predict">>

CallsPerFold == Len(FoldCalls)

\* C8: when CrossValidation.Run returns, the classifier was fit on the whole
\* dataset exactly once, after the calls of the last fold, with or without test
\* data; test data was predicted exactly once, after that fit and by it; and the
\* model saved and the model left in the runner are that fit.
C8_FullFitOnce ==
    cpc = "returned" =>
        LET full_fits == {i \in 1..Len(calls) : calls[i].op = "Fit" /\ calls[i].rows = FullData}
            test_predicts == {i \in 1..Len(calls) :
                                 calls[i].op = "Predict" /\ calls[i].rows.src = "test"}
            saves == {i \in 1..Len(calls) : calls[i].op = "Save"}
        IN  /\ Cardinality(full_fits) = 1
            /\ \A i \in full_fits : i > CallsPerFold * Len(folds)
            /\ Cardinality(test_predicts) = IF test_rows > 0 THEN 1 ELSE 0
            /\ \A i \in test_predicts :
                /\ calls[i].model = FullData
                /\ \A j \in full_fits : j < i
            /\ Cardinality(saves) = IF IsGiven(cv_store) THEN 1 ELSE 0
            /\ \A i \in saves : calls[i].model = FullData /\ calls[i].folder = cv_store
            /\ classifier.model = FullData

\* A run with test data and an output folder has returned.
C8_Witness ==
    /\ cpc = "returned"
    /\ test_rows > 0
    /\ IsGiven(cv_store)
    /\ Len(folds) >= 5
    /\ \E i \in 1..Len(calls) : calls[i].op = "Save"

\* C9: in the fold loop, fold f calls SetData and Fit with its training rows,
\* then Predict on the training rows, then Predict on the validation rows, both
\* predictions with the model fit on exactly that fold's training rows of the
\* current dataset; so no pooled validation prediction was made by a model fit
\* on its sample, or on the dataset of another feature count.
C9_FoldFitBeforePredict ==
    cpc \in {"fold", "returned"} =>
        /\ Len(calls) >= CallsPerFold * fold_no
        /\ \A f \in 1..fold_no :
            LET at == CallsPerFold * (f - 1)
                training == Rows(cv_data.selected, "data", folds[f].train)
                validation == Rows(cv_data.selected, "data", folds[f].val)
            IN  /\ calls[at + 1].op = "SetData" /\ calls[at + 1].rows = training
                /\ calls[at + 2].op = "Fit" /\ calls[at + 2].rows = training
                /\ calls[at + 3].op = "Predict" /\ calls[at + 3].rows = training
                /\ calls[at + 4].op = "Predict" /\ calls[at + 4].rows = validation
                /\ calls[at + 3].model = training
                /\ calls[at + 4].model = training
                /\ SetOf(folds[f].val) \cap SetOf(calls[at + 4].model.rows) = {}
        /\ \A i \in 1..Len(val_pred_list) :
            /\ val_pred_list[i].row \notin SetOf(val_pred_list[i].model.rows)
            /\ val_pred_list[i].model.selected = cv_data.selected
        /\ \A i \in 1..Len(train_pred_list) :
            /\ train_pred_list[i].row \in SetOf(train_pred_list[i].model.rows)
            /\ train_pred_list[i].model.selected = cv_data.selected

\* The second fold of the run for feature count 2 is done.
C9_Witness ==
    /\ spc = "running"
    /\ feature_number = 2
    /\ cv_data.selected = 2
    /\ cpc = "fold"
    /\ fold_no = 2
    /\ Len(val_pred_list) = 2

\* C10: a sweep called with no output location creates no directory, gives no
\* inner run an output location and writes no file.
C10_NoStoreNoPersistence ==
    store_folder = NoFolder =>
        /\ \A d \in dirs : d.feature = 0
        /\ RunActive => ~IsGiven(cv_store)
        /\ files = {}
        /\ summaries = {}
        /\ curves = {}
        /\ \A i \in 1..Len(calls) : calls[i].op # "Save"

====
